---- MODULE Spec2Model ----
(***************************************************************************)
(* Model of fvs/state.py: the FVSState snapshot object, its commit,        *)
(* break_references and load paths, together with the storage it writes    *)
(* (state directories and files.yml records) and the content store it      *)
(* drives through FVSData.                                                 *)
(***************************************************************************)
EXTENDS Integers, Sequences, FiniteSets, TLC

VARIABLES
    st,             \* the FVSState instance under observation
    next_state_id,  \* FVSRepo.next_state_id
    dirs,           \* ids whose state directory exists under states_path
    meta,           \* id -> files.yml document of that directory
    refs,           \* content store: md5 -> ids of the states claiming the blob
    written,        \* history: md5s some completed transaction has written
    log,            \* external calls made by the last operation, in order
    last,           \* the last operation: its arguments and its outcome
    ops,            \* calls made on FVSState so far
    commits,        \* commit calls that got to read their diff so far
    faults          \* I/O failures the environment has raised so far

vars == <<st, next_state_id, dirs, meta, refs, written, log, last, ops, commits, faults>>

----------------------------------------------------------------------------
(* Bounds of the model. *)

MaxId == 2          \* state ids range over 1..MaxId
MaxEntries == 2     \* entries of one unstaged diff, all partitions together
MaxCount == 1       \* the diff producer's count ranges over 0..MaxCount
MaxOps == 3         \* calls on FVSState in one run
MaxCommits == 2     \* of them, commit calls that get to read their diff
MaxFaults == 1      \* I/O failures of one run

(* __state_id = None is modelled as 0; the ids of the repository start at 1. *)
Unset == 0

Ids == 1..MaxId

----------------------------------------------------------------------------
(* File descriptors: the dicts of the unstaged diff and of the partitions. *)

FA == [file_name |-> "A", md5 |-> "h1", relative_path |-> "/a"]
FB == [file_name |-> "B", md5 |-> "h1", relative_path |-> "/b"]
FC == [file_name |-> "C", md5 |-> "h2", relative_path |-> "/a"]

Files == {FA, FB, FC}
Hashes == {"h1", "h2"}
NoFile == [file_name |-> "", md5 |-> "", relative_path |-> ""]

Partitions == <<"added", "modified", "removed", "intact">>
PartitionNames == {"added", "modified", "removed", "intact"}
DiffKeys == {"count"} \cup PartitionNames

----------------------------------------------------------------------------
(* Python dicts keep insertion order: a dict is a sequence of key/value    *)
(* items with pairwise distinct keys.                                      *)

DictKeys(d) == {d[i].key : i \in 1..Len(d)}

DictHas(d, k) == \E i \in 1..Len(d) : d[i].key = k

DictValues(d) == [i \in 1..Len(d) |-> d[i].val]

\* d[k] = v : overwrite in place when k is present, append otherwise
DictSet(d, k, v) ==
    IF DictHas(d, k)
    THEN [i \in 1..Len(d) |-> IF d[i].key = k THEN [key |-> k, val |-> v] ELSE d[i]]
    ELSE Append(d, [key |-> k, val |-> v])

EmptyFiles == [count |-> 0, added |-> <<>>, modified |-> <<>>,
               removed |-> <<>>, intact |-> <<>>]

----------------------------------------------------------------------------
(* files.yml.  yaml.dump(files, sort_keys=False) writes count and, for     *)
(* every partition, its items in dict order: the key, then the three       *)
(* fields of the entry.  The document is modelled as that token stream;    *)
(* yaml.safe_load rebuilds the dicts from it, a repeated key overwriting.  *)

RECURSIVE DumpMapping(_)
DumpMapping(d) ==
    IF d = <<>> THEN <<>>
    ELSE <<d[1].key, d[1].val.file_name, d[1].val.md5, d[1].val.relative_path>>
         \o DumpMapping(Tail(d))

RECURSIVE LoadMapping(_, _)
LoadMapping(toks, d) ==
    IF Len(toks) < 4 THEN d
    ELSE LoadMapping(SubSeq(toks, 5, Len(toks)),
                     DictSet(d, toks[1], [file_name |-> toks[2], md5 |-> toks[3],
                                          relative_path |-> toks[4]]))

\* a dump that leaves the removed partition out
yaml_dump_without_removed(files) ==
    [count |-> files.count,
     added |-> DumpMapping(files.added),
     modified |-> DumpMapping(files.modified),
     removed |-> <<>>,
     intact |-> DumpMapping(files.intact)]

yaml_dump(files) ==
    [count |-> files.count,
     added |-> DumpMapping(files.added),
     modified |-> DumpMapping(files.modified),
     removed |-> DumpMapping(files.removed),
     intact |-> DumpMapping(files.intact)]

yaml_safe_load(doc) ==
    [count |-> doc.count,
     added |-> LoadMapping(doc.added, <<>>),
     modified |-> LoadMapping(doc.modified, <<>>),
     removed |-> LoadMapping(doc.removed, <<>>),
     intact |-> LoadMapping(doc.intact, <<>>)]

----------------------------------------------------------------------------
(* The arguments of commit.  A diff is a dict: keys holds the keys that    *)
(* are present, and a missing key carries the default of its kind.         *)

Repo == "FVSRepo"
Callers == {Repo, "Other"}

\* message: None, "" or a text
MsgNone == [is_none |-> TRUE, text |-> ""]
Messages == {MsgNone, [is_none |-> FALSE, text |-> ""], [is_none |-> FALSE, text |-> "m"]}

KeySets == {DiffKeys} \cup {DiffKeys \ {k} : k \in DiffKeys}

\* the scanner walks the tracked files in this order and puts each file
\* it reports into one partition
FileOrder == <<FA, FB, FC>>

Untouched == "untouched"

Classifications ==
    {c \in [Files -> PartitionNames \cup {Untouched}] :
        Cardinality({f \in Files : c[f] # Untouched}) <= MaxEntries}

RECURSIVE FilesOf(_, _, _)
FilesOf(c, p, order) ==
    IF order = <<>> THEN <<>>
    ELSE (IF c[order[1]] = p THEN <<order[1]>> ELSE <<>>) \o FilesOf(c, p, Tail(order))

\* the list of a key that is absent is never read: it is kept empty
ListOf(c, p, keys) == IF p \in keys THEN FilesOf(c, p, FileOrder) ELSE <<>>

RawDiffs ==
    {[keys |-> ks,
      count |-> IF "count" \in ks THEN n ELSE 0,
      added |-> ListOf(c, "added", ks),
      modified |-> ListOf(c, "modified", ks),
      removed |-> ListOf(c, "removed", ks),
      intact |-> ListOf(c, "intact", ks)] :
        ks \in KeySets, n \in 0..MaxCount, c \in Classifications}

\* commit reads count, then added, modified, removed and intact, and stops
\* at the first key that is rejected or missing: the lists it cannot get to
\* are left empty
Unread(d, i) ==
    \/ "count" \notin d.keys
    \/ d.count = 0
    \/ \E j \in 1..i : Partitions[j] \notin d.keys

Diffs == {d \in RawDiffs : \A i \in 1..4 : Unread(d, i) => d[Partitions[i]] = <<>>}

NoDiff == [keys |-> {}, count |-> 0, added |-> <<>>, modified |-> <<>>,
           removed |-> <<>>, intact |-> <<>>]

\* False == unstaged_files.get(k): None and lists never equal False, 0 does
GetEqualsFalse(d, k) ==
    IF k \notin d.keys THEN FALSE
    ELSE IF k = "count" THEN d.count = 0
    ELSE FALSE

----------------------------------------------------------------------------
(* One run of a method: the instance's fields, the storage and the content *)
(* store as the method has left them so far, the calls it has made, and    *)
(* the exception it has raised ("none" while it is still running).         *)

NoError == "none"

Run(s) ==
    [id |-> s.state_id, path |-> s.state_path, files |-> s.files,
     queue |-> <<>>, log |-> <<>>, err |-> NoError,
     refs |-> refs, written |-> written, dirs |-> dirs, meta |-> meta]

Raise(r, e) == [r EXCEPT !.err = e]

\* a call that leaves the core: the failAt-th call of the run raises
Call(r, name, f, failAt) ==
    LET ok == Len(r.log) + 1 # failAt
    IN  [r EXCEPT !.log = Append(@, [call |-> name, file |-> f, ok |-> ok]),
                  !.err = IF ok THEN NoError ELSE "IOError"]

(* FVSData: add_file and delete_file queue the descriptor, and             *)
(* complete_transaction applies the whole queue or nothing of it.          *)

add_file(r, f, failAt) ==
    LET c == Call(r, "add_file", f, failAt)
    IN  IF c.err = NoError THEN [c EXCEPT !.queue = Append(@, [op |-> "add", md5 |-> f.md5])]
        ELSE c

delete_file(r, f, failAt) ==
    LET c == Call(r, "delete_file", f, failAt)
    IN  IF c.err = NoError THEN [c EXCEPT !.queue = Append(@, [op |-> "delete", md5 |-> f.md5])]
        ELSE c

RECURSIVE ApplyQueue(_, _, _)
ApplyQueue(rf, queue, id) ==
    IF queue = <<>> THEN rf
    ELSE LET q == queue[1]
             rf1 == [rf EXCEPT ![q.md5] = IF q.op = "add" THEN @ \cup {id} ELSE @ \ {id}]
         IN  ApplyQueue(rf1, Tail(queue), id)

AddedHashes(queue) == {queue[i].md5 : i \in {j \in 1..Len(queue) : queue[j].op = "add"}}

complete_transaction(r, failAt) ==
    LET c == Call(r, "complete_transaction", NoFile, failAt)
    IN  IF c.err = NoError
        THEN [c EXCEPT !.refs = ApplyQueue(@, c.queue, c.id),
                       !.written = @ \cup AddedHashes(c.queue),
                       !.queue = <<>>]
        ELSE c

(* FVSRepo: is_valid_state raises FVSStateNotFound for an id without a     *)
(* state directory; new_state_path_by_id creates the directory.            *)

is_valid_state(id, ds) == IF id \in ds THEN NoError ELSE "FVSStateNotFound"

new_state_path_by_id(r, failAt) ==
    LET c == Call(r, "new_state_path_by_id", NoFile, failAt)
    IN  IF c.err = NoError THEN [c EXCEPT !.dirs = @ \cup {c.id}] ELSE c

----------------------------------------------------------------------------
(* FVSState. *)

\* __init__ without a state_id
NewState == [state_id |-> Unset, state_path |-> Unset, files |-> EmptyFiles]

\* __is_initialized looking at the slot after the next one
is_initialized_off_by_one(nid, ds) == is_valid_state(nid + 1, ds) = NoError

\* __is_initialized: the slot of the repository's next id, not this instance
is_initialized(nid, ds) == is_valid_state(nid, ds) = NoError

\* message is None
MessageIsNone(message) == message.is_none

\* message in [None, ""]
MessageIsEmpty(message) == message.is_none \/ message.text = ""

\* not all([...]): a missing key, a count of 0 and an empty list are falsy
AnyFalsy(diff) ==
    \E k \in DiffKeys :
        \/ k \notin diff.keys
        \/ k = "count" /\ diff.count = 0
        \/ k # "count" /\ diff[k] = <<>>

\* False in [unstaged_files.get("count"), ..., unstaged_files.get("intact")]
WrongUnstagedDict(diff) == \E k \in DiffKeys : GetEqualsFalse(diff, k)

\* __save_state
save_state(r, failAt) ==
    LET r1 == new_state_path_by_id(r, failAt)
        r2 == IF r1.err = NoError THEN Call(r1, "write_files_yml", NoFile, failAt) ELSE r1
    IN  IF r2.err = NoError
        THEN [r2 EXCEPT !.meta = [n \in DOMAIN @ \cup {r2.id} |->
                                    IF n = r2.id THEN yaml_dump(r2.files) ELSE @[n]]]
        ELSE r2

\* one of the four loops of commit; only added and modified reach FVSData
RECURSIVE CollectFiles(_, _, _, _, _)
CollectFiles(r, p, list, store, failAt) ==
    IF r.err # NoError \/ list = <<>> THEN r
    ELSE LET f == list[1]
             r1 == IF store THEN add_file(r, f, failAt) ELSE r
             r2 == IF r1.err = NoError
                   THEN [r1 EXCEPT !.files[p] =
                            DictSet(@, f.md5, [file_name |-> f.file_name, md5 |-> f.md5,
                                               relative_path |-> f.relative_path])]
                   ELSE r1
         IN  CollectFiles(r2, p, Tail(list), store, failAt)

\* for _file in unstaged_files[p]: a missing key raises KeyError
Collect(r, p, diff, store, failAt) ==
    IF r.err # NoError THEN r
    ELSE IF p \notin diff.keys THEN Raise(r, "KeyError")
    ELSE CollectFiles(r, p, diff[p], store, failAt)

\* commit, lines 91-130: after the four checks
CommitBody(r, diff, nid, failAt) ==
    LET r1 == [r EXCEPT !.id = nid]
        r2 == IF "count" \in diff.keys THEN [r1 EXCEPT !.files.count = diff.count]
              ELSE Raise(r1, "KeyError")
        r3 == Collect(r2, "added", diff, TRUE, failAt)
        r4 == Collect(r3, "modified", diff, TRUE, failAt)
        r5 == Collect(r4, "removed", diff, FALSE, failAt)
        r6 == Collect(r5, "intact", diff, FALSE, failAt)
        r7 == IF r6.err = NoError THEN complete_transaction(r6, failAt) ELSE r6
    IN  IF r7.err = NoError THEN save_state(r7, failAt) ELSE r7

\* the checks of lines 57-72 with the message looked at before the slot
EarlyErrorMessageFirst(caller, message, nid, ds) ==
    IF caller # Repo THEN "FVSCallerWrongClass"
    ELSE IF MessageIsEmpty(message) THEN "FVSEmptyCommitMessage"
    ELSE IF is_initialized(nid, ds) THEN "FVSCommittingToExistingState"
    ELSE NoError

\* commit, lines 57-72: the checks that do not look at the diff
EarlyError(caller, message, nid, ds) ==
    IF caller # Repo THEN "FVSCallerWrongClass"
    ELSE IF is_initialized(nid, ds) THEN "FVSCommittingToExistingState"
    ELSE IF MessageIsEmpty(message) THEN "FVSEmptyCommitMessage"
    ELSE NoError

commit(r, caller, message, diff, nid, failAt) ==
    LET e == EarlyError(caller, message, nid, r.dirs)
    IN  IF e # NoError THEN Raise(r, e)
        ELSE IF WrongUnstagedDict(diff) THEN Raise(r, "FVSWrongUnstagedDict")
        ELSE CommitBody(r, diff, nid, failAt)

RECURSIVE DeleteFiles(_, _, _)
DeleteFiles(r, list, failAt) ==
    IF r.err # NoError \/ list = <<>> THEN r
    ELSE DeleteFiles(delete_file(r, list[1], failAt), Tail(list), failAt)

\* break_references that empties the partitions it has released
break_references_and_forget(r, caller, failAt) ==
    IF caller # Repo THEN Raise(r, "FVSCallerWrongClass")
    ELSE LET r1 == DeleteFiles(r, DictValues(r.files.added), failAt)
             r2 == DeleteFiles(r1, DictValues(r.files.modified), failAt)
             r3 == IF r2.err = NoError THEN complete_transaction(r2, failAt) ELSE r2
         IN  IF r3.err = NoError
             THEN [r3 EXCEPT !.files.added = <<>>, !.files.modified = <<>>]
             ELSE r3

\* break_references without the check of the caller
break_references_by_anyone(r, caller, failAt) ==
    LET r1 == DeleteFiles(r, DictValues(r.files.added), failAt)
        r2 == DeleteFiles(r1, DictValues(r.files.modified), failAt)
    IN  IF r2.err = NoError THEN complete_transaction(r2, failAt) ELSE r2

\* break_references with a third loop, over intact
break_references_with_intact(r, caller, failAt) ==
    IF caller # Repo THEN Raise(r, "FVSCallerWrongClass")
    ELSE LET r1 == DeleteFiles(r, DictValues(r.files.added), failAt)
             r2 == DeleteFiles(r1, DictValues(r.files.modified), failAt)
             r3 == DeleteFiles(r2, DictValues(r.files.intact), failAt)
         IN  IF r3.err = NoError THEN complete_transaction(r3, failAt) ELSE r3

break_references(r, caller, failAt) ==
    IF caller # Repo THEN Raise(r, "FVSCallerWrongClass")
    ELSE LET r1 == DeleteFiles(r, DictValues(r.files.added), failAt)
             r2 == DeleteFiles(r1, DictValues(r.files.modified), failAt)
         IN  IF r2.err = NoError THEN complete_transaction(r2, failAt) ELSE r2

\* __load_state: the instance is obtained only when the constructor returns
load_state(id, ds, mt) ==
    IF id \notin ds THEN [err |-> "FVSStateNotFound", state |-> NewState]
    ELSE IF id \notin DOMAIN mt THEN [err |-> "FileNotFoundError", state |-> NewState]
    ELSE [err |-> NoError,
          state |-> [state_id |-> id, state_path |-> id, files |-> yaml_safe_load(mt[id])]]

\* has_file that looks into removed as well
has_file_in_any_partition(files, md5) ==
    \E p \in PartitionNames : DictHas(files[p], md5)

\* has_file: md5 in added or modified or intact
has_file(files, md5) ==
    \/ DictHas(files.added, md5)
    \/ DictHas(files.modified, md5)
    \/ DictHas(files.intact, md5)

\* what a query returns: None, True, False or an entry of a partition
None == [value |-> "None", file |-> NoFile]
Bool(b) == [value |-> IF b THEN "True" ELSE "False", file |-> NoFile]
Entry(f) == [value |-> "entry", file |-> f]

SupportedKeys == {"any", "added", "modified", "intact"}

\* the three loops of key "any" with the loop over added in front
SearchOrderAddedFirst == <<"added", "modified", "intact">>

\* the three loops of key "any", lines 190-198
SearchOrder == <<"intact", "modified", "added">>

\* for file in d.values(): if file["relative_path"] == relative_path: return file
RECURSIVE FindPath(_, _)
FindPath(d, relative_path) ==
    IF d = <<>> THEN None
    ELSE IF d[1].val.relative_path = relative_path THEN Entry(d[1].val)
    ELSE FindPath(Tail(d), relative_path)

RECURSIVE FindAny(_, _, _)
FindAny(files, order, relative_path) ==
    IF order = <<>> THEN None
    ELSE LET hit == FindPath(files[order[1]], relative_path)
         IN  IF hit # None THEN hit ELSE FindAny(files, Tail(order), relative_path)

\* has_relative_path: after the loops of "any" the method goes on to
\* self.__files[key], and the files dict has no key "any"
has_relative_path(files, relative_path, key) ==
    IF key \notin SupportedKeys THEN [err |-> "FVSUnsupportedKey", ret |-> None]
    ELSE LET hit == IF key = "any" THEN FindAny(files, SearchOrder, relative_path) ELSE None
         IN  IF hit # None THEN [err |-> NoError, ret |-> hit]
             ELSE IF key \notin DOMAIN files THEN [err |-> "KeyError", ret |-> None]
             ELSE [err |-> NoError, ret |-> FindPath(files[key], relative_path)]

----------------------------------------------------------------------------
(* The operations as actions. *)

\* the arguments the queries are called with
Paths == {"/a", "/zz"}
Keys == SupportedKeys \cup {"removed"}

NoArgs == [caller |-> Repo, message |-> MsgNone, diff |-> NoDiff, id |-> Unset,
           md5 |-> "", relative_path |-> "", key |-> ""]

Outcome(op, args, r) ==
    [op |-> op, caller |-> args.caller, message |-> args.message, diff |-> args.diff,
     id |-> args.id, md5 |-> args.md5, relative_path |-> args.relative_path,
     key |-> args.key, nid |-> next_state_id, slot |-> next_state_id \in dirs,
     err |-> r.err, ret |-> None, again |-> FALSE]

Adopt(r) ==
    /\ st' = [state_id |-> r.id, state_path |-> r.path, files |-> r.files]
    /\ refs' = r.refs
    /\ written' = r.written
    /\ dirs' = r.dirs
    /\ meta' = r.meta
    /\ log' = r.log
    /\ faults' = IF r.err = "IOError" THEN faults + 1 ELSE faults

\* the call whose failure the environment may raise: none once the run has
\* had its failures
FailPoints(n) == IF faults < MaxFaults THEN 0..n ELSE {0}

Init ==
    /\ st = NewState
    /\ next_state_id = 1
    /\ dirs = {}
    /\ meta = <<>>
    /\ refs = [h \in Hashes |-> {}]
    /\ written = {}
    /\ log = <<>>
    /\ ops = 0
    /\ commits = 0
    /\ faults = 0
    /\ last = Outcome("construct", NoArgs, [err |-> NoError])

Construct ==
    /\ ops < MaxOps
    /\ ops' = ops + 1
    /\ st' = NewState
    /\ log' = <<>>
    /\ last' = Outcome("construct", NoArgs, [err |-> NoError])
    /\ UNCHANGED <<next_state_id, dirs, meta, refs, written, faults, commits>>

Load ==
    \E id \in Ids :
        LET res == load_state(id, dirs, meta)
        IN  /\ ops < MaxOps
            /\ ops' = ops + 1
            /\ st' = IF res.err = NoError THEN res.state ELSE st
            /\ last' = Outcome("load", [NoArgs EXCEPT !.id = id], res)
            /\ log' = <<>>
            /\ UNCHANGED <<next_state_id, dirs, meta, refs, written, faults, commits>>

\* a call that one of the first three checks rejects never reads its diff:
\* one diff that line 79 accepts and one that it rejects stand for all
ProbeDiffs ==
    {d \in Diffs : d.keys = DiffKeys /\ \A p \in PartitionNames : d[p] = <<>>}

\* the calls of one commit that leave the core
NumCalls(diff) == Len(diff.added) + Len(diff.modified) + 3

Commit ==
    \E caller \in Callers, message \in Messages :
        LET reads == EarlyError(caller, message, next_state_id, dirs) = NoError
        IN  /\ ops < MaxOps
            /\ ops' = ops + 1
            /\ reads => commits < MaxCommits
            /\ commits' = IF reads THEN commits + 1 ELSE commits
            /\ \E diff \in (IF reads THEN Diffs ELSE ProbeDiffs) :
                 \E failAt \in (IF reads THEN FailPoints(NumCalls(diff)) ELSE {0}) :
                    LET r == commit(Run(st), caller, message, diff, next_state_id, failAt)
                    IN  /\ Adopt(r)
                        /\ last' = Outcome("commit", [NoArgs EXCEPT !.caller = caller,
                                           !.message = message, !.diff = diff], r)
                        /\ UNCHANGED next_state_id

BreakReferences ==
    \E caller \in Callers :
        /\ ops < MaxOps
        /\ ops' = ops + 1
        /\ \E failAt \in FailPoints(Len(st.files.added) + Len(st.files.modified) + 1) :
            LET r == break_references(Run(st), caller, failAt)
                \* again: the call before this one was a break_references that went through
                again == last.op = "break_references" /\ last.caller = Repo
                         /\ last.err = NoError
            IN  /\ Adopt(r)
                /\ last' = [Outcome("break_references", [NoArgs EXCEPT !.caller = caller], r)
                                EXCEPT !.again = again]
                /\ UNCHANGED <<next_state_id, commits>>

HasFile ==
    \E md5 \in Hashes :
        /\ ops < MaxOps
        /\ ops' = ops + 1
        /\ last' = [Outcome("has_file", [NoArgs EXCEPT !.md5 = md5], [err |-> NoError])
                        EXCEPT !.ret = Bool(has_file(st.files, md5))]
        /\ log' = <<>>
        /\ UNCHANGED <<st, next_state_id, dirs, meta, refs, written, faults, commits>>

HasRelativePath ==
    \E relative_path \in Paths, key \in Keys :
        LET res == has_relative_path(st.files, relative_path, key)
        IN  /\ ops < MaxOps
            /\ ops' = ops + 1
            /\ last' = [Outcome("has_relative_path",
                                [NoArgs EXCEPT !.relative_path = relative_path, !.key = key],
                                res)
                            EXCEPT !.ret = res.ret]
            /\ log' = <<>>
            /\ UNCHANGED <<st, next_state_id, dirs, meta, refs, written, faults, commits>>

\* FVSRepo moves to the next id once the state of the current one is stored
Advance ==
    /\ next_state_id \in DOMAIN meta
    /\ next_state_id < MaxId
    /\ next_state_id' = next_state_id + 1
    /\ last' = [Outcome("advance", NoArgs, [err |-> NoError]) EXCEPT
                    !.nid = next_state_id + 1, !.slot = (next_state_id + 1) \in dirs]
    /\ log' = <<>>
    /\ UNCHANGED <<st, dirs, meta, refs, written, ops, faults, commits>>

Next ==
    \/ Construct
    \/ Load
    \/ Commit
    \/ BreakReferences
    \/ HasFile
    \/ HasRelativePath
    \/ Advance

Spec == Init /\ [][Next]_vars

----------------------------------------------------------------------------
(* Properties. *)

\* this step is a call of commit
CommitStep == ops' = ops + 1 /\ last'.op = "commit"

StoredHashes(n, p) == DictKeys(yaml_safe_load(meta[n])[p])

CallsOf(name) == {i \in 1..Len(log) : log[i].call = name}

(* C1: a commit call that fails, at whatever step, leaves persisted        *)
(* storage as it was before the call: the content store, the state         *)
(* directories and the metadata records are unchanged.                     *)
FailedCommitLeavesStorage ==
    [][(CommitStep /\ last'.err # NoError) =>
            (refs' = refs /\ dirs' = dirs /\ meta' = meta)]_vars

(* C2: the State instance is always either uncommitted (id unset, count 0, *)
(* all partitions empty) or committed (id set and the metadata record of   *)
(* that id persisted).  Stated for the states that no KeyError led to.     *)
NeverPartiallyCommitted ==
    (last.err # "KeyError") =>
        \/ st.state_id = Unset /\ st.files = EmptyFiles
        \/ st.state_id # Unset /\ st.state_id \in DOMAIN meta

(* C3: the content of every added and modified entry of a persisted        *)
(* metadata record was written by a completed content-store transaction    *)
(* before the record was serialized.                                       *)
PersistedMetadataHasContent ==
    \A n \in DOMAIN meta :
        StoredHashes(n, "added") \cup StoredHashes(n, "modified") \subseteq written

(* C4: a commit call of the repository, with a message and a diff that     *)
(* pass the checks, on an instance that was committed or loaded is         *)
(* rejected with FVSCommittingToExistingState and leaves the id, the count *)
(* and the partitions of the instance as they were.                        *)
CommitAtMostOnce ==
    [][(/\ CommitStep
        /\ st.state_id # Unset
        /\ st.state_id \in DOMAIN meta
        /\ st.files = yaml_safe_load(meta[st.state_id])
        /\ last'.caller = Repo
        /\ ~last'.message.is_none /\ last'.message.text # ""
        /\ last'.diff.keys = DiffKeys /\ last'.diff.count # 0)
            => (last'.err = "FVSCommittingToExistingState" /\ st' = st)]_vars

(* C5 as stated: a commit call is rejected with                            *)
(* FVSCommittingToExistingState whenever the slot of the next state id     *)
(* exists, whoever calls; the call reaches neither the content store nor   *)
(* the metadata.                                                           *)
ExistingSlotRejectsEveryCall ==
    [][(CommitStep /\ next_state_id \in dirs) =>
            /\ last'.err = "FVSCommittingToExistingState"
            /\ log' = <<>>
            /\ UNCHANGED <<refs, dirs, meta>>]_vars

(* C5 amended: a commit call of the repository is rejected with            *)
(* FVSCommittingToExistingState whenever the slot of the next state id     *)
(* exists; the call makes no call outside the core and leaves the content  *)
(* store, the metadata records and the instance as they were.              *)
ExistingSlotRejectsRepoCall ==
    [][(CommitStep /\ next_state_id \in dirs /\ last'.caller = Repo) =>
            /\ last'.err = "FVSCommittingToExistingState"
            /\ log' = <<>>
            /\ UNCHANGED <<refs, dirs, meta, st>>]_vars

\* a second commit of the repository aimed at an id that is committed
ExistingSlotWitness ==
    /\ last.op = "commit"
    /\ last.caller = Repo
    /\ last.slot
    /\ last.nid \in DOMAIN meta
    /\ ~last.message.is_none /\ last.message.text # ""
    /\ last.err = "FVSCommittingToExistingState"
    /\ commits = 1

(* C6: a commit call of the repository on a free slot, with a message,     *)
(* whose diff lacks one of the five keys fails with FVSWrongUnstagedDict   *)
(* before any call outside the core and before the instance changes.       *)
MissingKeyIsMalformed ==
    [][(/\ CommitStep
        /\ last'.caller = Repo
        /\ next_state_id \notin dirs
        /\ ~last'.message.is_none /\ last'.message.text # ""
        /\ last'.diff.keys # DiffKeys)
            => /\ last'.err = "FVSWrongUnstagedDict"
               /\ log' = <<>>
               /\ UNCHANGED <<refs, dirs, meta, st>>]_vars

\* the calls C7 is about: by the repository, on a free slot, with a message
\* and a diff that has all five keys
FullDiffCommitted ==
    /\ last.op = "commit"
    /\ last.caller = Repo
    /\ ~last.slot
    /\ ~last.message.is_none /\ last.message.text # ""
    /\ last.diff.keys = DiffKeys

(* C7 as stated: a diff with a count of 0 or with an empty added,          *)
(* modified, removed or intact list fails with FVSWrongUnstagedDict.       *)
EmptyListIsMalformed ==
    (/\ FullDiffCommitted
     /\ \/ last.diff.count = 0
        \/ \E p \in PartitionNames : last.diff[p] = <<>>)
        => last.err = "FVSWrongUnstagedDict"

(* C7 amended: a diff with a count of 0 fails with FVSWrongUnstagedDict;   *)
(* a diff with all five keys and another count is never rejected as        *)
(* malformed, whichever of its lists are empty, and is committed unless    *)
(* the content store or the storage fails.                                 *)
OnlyZeroCountIsMalformed ==
    FullDiffCommitted =>
        /\ last.diff.count = 0 => last.err = "FVSWrongUnstagedDict"
        /\ last.diff.count # 0 =>
            /\ last.err \in {NoError, "IOError"}
            /\ last.err = NoError => last.nid \in DOMAIN meta
            /\ (\A i \in 1..Len(log) : log[i].ok) => last.err = NoError

\* a diff with an empty list that was committed
EmptyListCommittedWitness ==
    /\ FullDiffCommitted
    /\ last.diff.added # <<>>
    /\ last.diff.modified = <<>>
    /\ last.diff.removed = <<>>
    /\ last.err = NoError
    /\ last.nid \in DOMAIN meta

(* C8: a commit call of the repository on a free slot with the message     *)
(* None or "" fails with FVSEmptyCommitMessage, makes no call outside the  *)
(* core, leaves the content store, the storage and the instance as they    *)
(* were (a new instance keeps its id unset and its partitions empty), and  *)
(* loading the id it would have got fails with FVSStateNotFound.           *)
EmptyMessageRejected ==
    [][(/\ CommitStep
        /\ last'.caller = Repo
        /\ next_state_id \notin dirs
        /\ (last'.message.is_none \/ last'.message.text = ""))
            => /\ last'.err = "FVSEmptyCommitMessage"
               /\ log' = <<>>
               /\ UNCHANGED <<refs, dirs, meta, st>>
               /\ st.state_id = Unset => (st'.state_id = Unset /\ st'.files = EmptyFiles)
               /\ load_state(next_state_id, dirs', meta').err = "FVSStateNotFound"]_vars

\* commit with the message "" on a new instance
EmptyMessageWitness ==
    /\ last.op = "commit"
    /\ last.caller = Repo
    /\ ~last.slot
    /\ ~last.message.is_none /\ last.message.text = ""
    /\ last.err = "FVSEmptyCommitMessage"
    /\ st = NewState
    /\ load_state(last.nid, dirs, meta).err = "FVSStateNotFound"

(* C9: after a successful commit every entry of the four lists of the diff *)
(* is in the partition of the same name under its md5, count is the count  *)
(* of the diff, and add_file was called once for each entry of added and   *)
(* modified and for nothing else.                                          *)
EveryEntryRecorded ==
    (last.op = "commit" /\ last.err = NoError) =>
        /\ \A p \in PartitionNames : \A i \in 1..Len(last.diff[p]) :
                \E j \in 1..Len(st.files[p]) :
                    /\ st.files[p][j].key = last.diff[p][i].md5
                    /\ st.files[p][j].val = last.diff[p][i]
        /\ st.files.count = last.diff.count
        /\ Cardinality(CallsOf("add_file")) = Len(last.diff.added) + Len(last.diff.modified)
        /\ \A a \in CallsOf("add_file") :
                \E p \in {"added", "modified"} : \E i \in 1..Len(last.diff[p]) :
                    log[a].file = last.diff[p][i]

(* C10: after a successful commit, loading the id that was assigned gives  *)
(* a State with that id and with the count and the four partitions of the  *)
(* committing State.                                                       *)
CommitLoadRoundTrip ==
    (last.op = "commit" /\ last.err = NoError) =>
        LET res == load_state(last.nid, dirs, meta)
        IN  /\ st.state_id = last.nid
            /\ res.err = NoError
            /\ res.state.state_id = st.state_id
            /\ res.state.files = st.files

\* a commit that filled two partitions, removed among them
RoundTripWitness ==
    /\ last.op = "commit"
    /\ last.err = NoError
    /\ st.files.added # <<>>
    /\ st.files.removed # <<>>
    /\ load_state(last.nid, dirs, meta).state.files = st.files

\* this step is a call of break_references
BreakStep == ops' = ops + 1 /\ last'.op = "break_references"

\* the entries of the partitions are entries of the last diff: the commit
\* found the partitions empty or holding nothing else
OnlyDiffEntries ==
    \A p \in PartitionNames : \A i \in 1..Len(st.files[p]) :
        \E j \in 1..Len(last.diff[p]) : st.files[p][i].val = last.diff[p][j]

(* C11: in a committed State, whether commit produced it or load rebuilt   *)
(* it, no content hash is a key of two of the partitions added, modified,  *)
(* removed and intact, whatever diff commit accepted.                      *)
HashInOnePartition ==
    (/\ last.op \in {"commit", "load"}
     /\ last.err = NoError
     /\ last.op = "commit" => OnlyDiffEntries)
        => \A p \in PartitionNames, q \in PartitionNames :
                p # q => DictKeys(st.files[p]) \cap DictKeys(st.files[q]) = {}

\* the calls break_references has to make for the partitions of the State
ExpectedDeletes == DictValues(st.files.added) \o DictValues(st.files.modified)

(* C12: a break_references call of the repository that goes through calls  *)
(* delete_file once for every entry of added and of modified, in that      *)
(* order, for no entry of removed or intact, and then                      *)
(* complete_transaction once, as its last call.                            *)
BreakDeletesAddedAndModified ==
    (last.op = "break_references" /\ last.caller = Repo /\ last.err = NoError) =>
        /\ Len(log) = Len(ExpectedDeletes) + 1
        /\ \A i \in 1..Len(ExpectedDeletes) :
                log[i].call = "delete_file" /\ log[i].file = ExpectedDeletes[i]
        /\ log[Len(log)].call = "complete_transaction"
        /\ CallsOf("complete_transaction") = {Len(log)}

\* break_references on a State with an added, a modified and an intact entry
BreakDeletesWitness ==
    /\ last.op = "break_references"
    /\ last.caller = Repo
    /\ last.err = NoError
    /\ st.files.added # <<>>
    /\ st.files.modified # <<>>
    /\ st.files.intact # <<>>
    /\ Cardinality(CallsOf("delete_file")) = 2

(* C13: has_relative_path with a key of any, added, modified or intact     *)
(* returns an entry or None and raises nothing, also when no partition it  *)
(* searches has an entry with the path.                                    *)
ValidKeyNeverFails ==
    (last.op = "has_relative_path" /\ last.key \in {"any", "added", "modified", "intact"})
        => last.err = NoError

\* the entries of partition p with the path the last query asked for
WithPath(p) == {i \in 1..Len(st.files[p]) : st.files[p][i].val.relative_path = last.relative_path}

\* the first of them in the order of the dict
FirstWithPath(p) == st.files[p][CHOOSE i \in WithPath(p) : \A j \in WithPath(p) : i <= j].val

(* C14: has_relative_path with key "any" returns the first intact entry    *)
(* with the path if there is one, whatever modified and added hold; else   *)
(* the first modified entry with the path, whatever added holds; else the  *)
(* first added entry with the path; and what it returns is an entry of one *)
(* of these three partitions, never one that only removed holds.           *)
AnySearchesIntactModifiedAdded ==
    (last.op = "has_relative_path" /\ last.key = "any") =>
        /\ WithPath("intact") # {} =>
                last.err = NoError /\ last.ret = Entry(FirstWithPath("intact"))
        /\ (WithPath("intact") = {} /\ WithPath("modified") # {}) =>
                last.err = NoError /\ last.ret = Entry(FirstWithPath("modified"))
        /\ (WithPath("intact") = {} /\ WithPath("modified") = {} /\ WithPath("added") # {}) =>
                last.err = NoError /\ last.ret = Entry(FirstWithPath("added"))
        /\ last.ret # None =>
                \E p \in {"intact", "modified", "added"} : \E i \in WithPath(p) :
                    last.ret = Entry(st.files[p][i].val)
        /\ (\A p \in {"intact", "modified", "added"} : WithPath(p) = {}) => last.ret = None

\* the path is in intact and, under another hash, in added
AnySearchWitness ==
    /\ last.op = "has_relative_path"
    /\ last.key = "any"
    /\ WithPath("intact") # {}
    /\ WithPath("added") # {}
    /\ FirstWithPath("intact") # FirstWithPath("added")
    /\ last.ret = Entry(FirstWithPath("intact"))

\* the path is in modified and in added, not in intact
AnySearchModifiedWitness ==
    /\ last.op = "has_relative_path"
    /\ last.key = "any"
    /\ WithPath("intact") = {}
    /\ WithPath("modified") # {}
    /\ WithPath("added") # {}
    /\ last.ret = Entry(FirstWithPath("modified"))

(* C15: has_file(h) returns True exactly when h is a key of added, of      *)
(* modified or of intact, False when h is a key of removed only or of no   *)
(* partition, and leaves the State and the storage as they were.           *)
HasFileLooksAtThreePartitions ==
    [][(ops' = ops + 1 /\ last'.op = "has_file") =>
        /\ last'.err = NoError
        /\ last'.ret.value \in {"True", "False"}
        /\ last'.ret.value = "True" <=>
                \E p \in {"added", "modified", "intact"} :
                    last'.md5 \in DictKeys(st.files[p])
        /\ UNCHANGED <<st, refs, dirs, meta>>]_vars

\* has_file of a hash that only removed holds
HasFileRemovedOnlyWitness ==
    /\ last.op = "has_file"
    /\ last.md5 \in DictKeys(st.files.removed)
    /\ \A p \in {"added", "modified", "intact"} : last.md5 \notin DictKeys(st.files[p])
    /\ st.files.added # <<>>
    /\ last.ret.value = "False"

(* C16: load(id) fails with FVSStateNotFound whenever the id has no        *)
(* metadata record, also when its directory was created and no record was  *)
(* written into it; when it succeeds, a record exists and the State has    *)
(* the id and exactly the count and the partitions of the record.          *)
LoadFailsWithStateNotFound ==
    (last.op = "load") =>
        /\ last.id \notin DOMAIN meta => last.err = "FVSStateNotFound"
        /\ last.err = NoError =>
                /\ last.id \in DOMAIN meta
                /\ st.state_id = last.id
                /\ st.files = yaml_safe_load(meta[last.id])

(* C17: a commit or a break_references call of a caller other than         *)
(* FVSRepo fails with FVSCallerWrongClass, calls neither add_file,         *)
(* delete_file nor complete_transaction, writes no metadata and leaves the *)
(* id, the count and the partitions of the State as they were.             *)
OtherCallerHasNoEffect ==
    [][((CommitStep \/ BreakStep) /\ last'.caller # Repo) =>
            /\ last'.err = "FVSCallerWrongClass"
            /\ log' = <<>>
            /\ UNCHANGED <<st, refs, written, dirs, meta>>]_vars

\* break_references of another caller on a committed State with content
OtherCallerWitness ==
    /\ last.op = "break_references"
    /\ last.caller # Repo
    /\ last.err = "FVSCallerWrongClass"
    /\ st.state_id \in DOMAIN meta
    /\ st.files.added # <<>>
    /\ st.state_id \in refs[st.files.added[1].key]
    /\ log = <<>>

\* the calls of the given name for the hash h, among the calls of a log
CallsFor(calls, name, h) ==
    {i \in 1..Len(calls) : calls[i].call = name /\ calls[i].file.md5 = h}

(* C18: when break_references goes through on the State a commit has just  *)
(* produced from its diff alone, it calls delete_file for every hash as    *)
(* many times as that commit called add_file for it.                       *)
DeletesBalanceAdds ==
    [][(/\ last.op = "commit"
        /\ last.err = NoError
        /\ OnlyDiffEntries
        /\ BreakStep
        /\ last'.caller = Repo
        /\ last'.err = NoError)
            => \A h \in Hashes :
                    Cardinality(CallsFor(log', "delete_file", h))
                        = Cardinality(CallsFor(log, "add_file", h))]_vars

(* C19: break_references, whoever calls and however it ends, leaves the    *)
(* id, the count and the partitions of the State and the metadata records  *)
(* as they were; a break_references of the repository that follows one     *)
(* that went through, and goes through itself, makes the same calls        *)
(* again.                                                                  *)
BreakLeavesStateAndMetadata ==
    [][BreakStep =>
        /\ UNCHANGED <<st, meta, dirs>>
        /\ (last'.again /\ last'.caller = Repo /\ last'.err = NoError) => log' = log]_vars

\* the second of two break_references calls on a committed State
SecondBreakWitness ==
    /\ last.op = "break_references"
    /\ last.again
    /\ last.caller = Repo
    /\ last.err = NoError
    /\ st.state_id \in DOMAIN meta
    /\ st.files = yaml_safe_load(meta[st.state_id])
    /\ CallsOf("delete_file") # {}

\* the preconditions of commit, as the caller can violate them
WrongCaller == last'.caller # Repo
SlotTaken == next_state_id \in dirs
NoMessage == last'.message.is_none \/ last'.message.text = ""

(* C20: a commit call reports the first violated precondition in the order *)
(* caller (FVSCallerWrongClass), slot (FVSCommittingToExistingState),      *)
(* message (FVSEmptyCommitMessage), diff (FVSWrongUnstagedDict), whatever  *)
(* later ones are violated as well; a call that one of the first three     *)
(* checks or the zero count of the fourth rejects has assigned no id and   *)
(* made no call outside the core.                                          *)
FirstViolationIsReported ==
    [][CommitStep =>
        /\ WrongCaller => last'.err = "FVSCallerWrongClass"
        /\ (~WrongCaller /\ SlotTaken) => last'.err = "FVSCommittingToExistingState"
        /\ (~WrongCaller /\ ~SlotTaken /\ NoMessage) => last'.err = "FVSEmptyCommitMessage"
        /\ (~WrongCaller /\ ~SlotTaken /\ ~NoMessage /\ last'.diff.count = 0
                /\ last'.diff.keys = DiffKeys) => last'.err = "FVSWrongUnstagedDict"
        /\ last'.err \in {"FVSCallerWrongClass", "FVSCommittingToExistingState",
                          "FVSEmptyCommitMessage", "FVSWrongUnstagedDict"} =>
                /\ st' = st
                /\ log' = <<>>
                /\ UNCHANGED <<refs, dirs, meta>>]_vars

\* a commit of the repository that violates three preconditions at once
SeveralViolationsWitness ==
    /\ last.op = "commit"
    /\ last.caller = Repo
    /\ last.slot
    /\ last.message.is_none
    /\ last.diff.count = 0
    /\ last.err = "FVSCommittingToExistingState"
    /\ st.state_id # Unset

====
